---- MODULE Spec2Model ----
(***************************************************************************)
(* Model of simpleperf/scripts/unwinding_result_reporter.py:               *)
(* ProcessMaps (per-pid sorted list of MapEntry objects), and the          *)
(* aggregation of unwinding results per file / function / stop reason.     *)
(***************************************************************************)
EXTENDS Integers, Sequences, FiniteSets, TLC

(* ---------------------------- bounds ----------------------------------- *)
\* addresses of the trace are 0..MaxAddr
MaxAddr == 3

\* the pids of the trace: a parent and a child
Pids == {1, 2}
Addrs == 0..MaxAddr
MapFilenames == {"a", "b"}

(* ---------------------------- state ------------------------------------ *)
VARIABLES
    heap,           \* the MapEntry objects alive, by object identity
    process_maps,   \* ProcessMaps.process_maps: pid -> list of MapEntry refs
    omit_callchains_fixed_by_joiner,    \* the command line flag
    samples,        \* the SampleResult objects built so far, each with the
                    \* joined record of its event, in trace order
    unwinding_times,    \* UnwindingTimes: total_time, count, max_time
    file_results,   \* filename -> function_name -> stop_reason -> list of
                    \* references into samples
    pc              \* where main is: "build" while
                    \* build_unwinding_result_report reads records, "fatal"
                    \* once log_fatal ended the run, "shown" after report.show()

vars == <<heap, process_maps, omit_callchains_fixed_by_joiner, samples,
          unwinding_times, file_results, pc>>

mapVars == <<heap, process_maps>>
reportVars == <<omit_callchains_fixed_by_joiner, samples, unwinding_times,
                file_results>>

\* MapEntry.__init__
MapEntry(start, end, filename) ==
    [start |-> start, end |-> end, filename |-> filename]

\* MapEntry.__lt__
MapEntry_lt(self, other) == self.start < other.start

\* the null reference
None == 0

\* dict.get(pid, [])
get(pm, pid) == IF pid \in DOMAIN pm THEN pm[pid] ELSE <<>>

\* dict[pid] = value
setitem(pm, pid, value) ==
    [q \in (DOMAIN pm) \cup {pid} |-> IF q = pid THEN value ELSE pm[q]]

(* ------------------- object identity up to renaming -------------------- *)
RECURSIVE FlatRefs(_, _)
FlatRefs(pm, ps) ==
    IF ps = {} THEN <<>>
    ELSE LET p == CHOOSE q \in ps : \A r \in ps : q <= r
         IN  pm[p] \o FlatRefs(pm, ps \ {p})

\* The objects the lists mention, each once, in the order of first mention.
RECURSIVE LiveOrder(_, _, _)
LiveOrder(flat, i, acc) ==
    IF i > Len(flat) THEN acc
    ELSE IF \E j \in 1..Len(acc) : acc[j] = flat[i]
         THEN LiveOrder(flat, i + 1, acc)
         ELSE LiveOrder(flat, i + 1, Append(acc, flat[i]))

\* Objects no list refers to are garbage; the live ones are renumbered in the
\* order in which the lists first mention them.
Collect(pm, h) ==
    LET order == LiveOrder(FlatRefs(pm, DOMAIN pm), 1, <<>>)
        inv == [d \in 1..Len(h) |->
                   IF \E k \in 1..Len(order) : order[k] = d
                   THEN CHOOSE k \in 1..Len(order) : order[k] = d
                   ELSE 0]
    IN  [h  |-> [k \in 1..Len(order) |-> h[order[k]]],
         pm |-> [p \in DOMAIN pm |-> [i \in 1..Len(pm[p]) |-> inv[pm[p][i]]]]]

(* ---------------------------- ProcessMaps.add -------------------------- *)
\* add_step with the truncation 'entry.end = map_entry.start' left out
add_step_keep_end(st, entry, me) ==
    LET e == st.h[entry]
        m == st.h[me]
    IN  IF e.end <= m.start \/ e.start < m.start THEN
            [st EXCEPT !.new_list = Append(@, entry)]
        ELSE
            LET s1 == IF ~st.used
                      THEN [st EXCEPT !.new_list = Append(@, me), !.used = TRUE]
                      ELSE st
            IN  IF e.start >= m.end THEN
                    [s1 EXCEPT !.new_list = Append(@, entry)]
                ELSE IF e.end > m.end THEN
                    [s1 EXCEPT !.h[entry].start = m.end,
                               !.new_list = Append(@, entry)]
                ELSE s1

\* add_step with 'entry.end >= map_entry.end' for the entry that reaches
\* beyond the new range
add_step_ge(st, entry, me) ==
    LET e == st.h[entry]
        m == st.h[me]
    IN  IF e.end <= m.start THEN
            [st EXCEPT !.new_list = Append(@, entry)]
        ELSE IF e.start < m.start THEN
            [st EXCEPT !.h[entry].end = m.start,
                       !.new_list = Append(@, entry)]
        ELSE
            LET s1 == IF ~st.used
                      THEN [st EXCEPT !.new_list = Append(@, me), !.used = TRUE]
                      ELSE st
            IN  IF e.start >= m.end THEN
                    [s1 EXCEPT !.new_list = Append(@, entry)]
                ELSE IF e.end >= m.end THEN
                    [s1 EXCEPT !.h[entry].start = m.end,
                               !.new_list = Append(@, entry)]
                ELSE s1

\* One iteration of the for loop of add, on old_list[i]; st carries new_list,
\* map_entry_used and the heap (entries are mutated in place).
add_step(st, entry, me) ==
    LET e == st.h[entry]
        m == st.h[me]
    IN  IF e.end <= m.start THEN
            [st EXCEPT !.new_list = Append(@, entry)]
        ELSE IF e.start < m.start THEN
            [st EXCEPT !.h[entry].end = m.start,
                       !.new_list = Append(@, entry)]
        ELSE
            LET s1 == IF ~st.used
                      THEN [st EXCEPT !.new_list = Append(@, me), !.used = TRUE]
                      ELSE st
            IN  IF e.start >= m.end THEN
                    [s1 EXCEPT !.new_list = Append(@, entry)]
                ELSE IF e.end > m.end THEN
                    [s1 EXCEPT !.h[entry].start = m.end,
                               !.new_list = Append(@, entry)]
                ELSE s1

RECURSIVE add_loop(_, _, _, _)
add_loop(st, old_list, i, me) ==
    IF i > Len(old_list) THEN st
    ELSE add_loop(add_step(st, old_list[i], me), old_list, i + 1, me)

\* add that appends map_entry after the loop whether or not it was used
add_always_append(pm, h, pid, me) ==
    LET old_list == get(pm, pid)
        st0 == [new_list |-> <<>>, used |-> FALSE, h |-> h]
        st1 == add_loop(st0, old_list, 1, me)
    IN  [pm |-> setitem(pm, pid, Append(st1.new_list, me)), h |-> st1.h]

\* ProcessMaps.add(pid, map_entry), map_entry a reference into h
add(pm, h, pid, me) ==
    LET old_list == get(pm, pid)
        st0 == [new_list |-> <<>>, used |-> FALSE, h |-> h]
        st1 == add_loop(st0, old_list, 1, me)
        new_list == IF ~st1.used THEN Append(st1.new_list, me) ELSE st1.new_list
    IN  [pm |-> setitem(pm, pid, new_list), h |-> st1.h]

\* process_maps.add(pid, MapEntry(start, end, filename)), as the mmap branch
\* calls it
add_new(pm, h, pid, start, end, filename) ==
    LET h0 == Append(h, MapEntry(start, end, filename))
    IN  add(pm, h0, pid, Len(h0))

(* ---------------------------- ProcessMaps.fork_pid --------------------- *)
\* copy.copy(entry_list): a new list of the same objects
copy_shallow(h, entry_list) == [h |-> h, list |-> entry_list]

\* copy.deepcopy(entry_list): a new list of new objects, equal field by field
deepcopy(h, entry_list) ==
    LET src == {entry_list[i] : i \in 1..Len(entry_list)}
        new(d) == Len(h) + Cardinality({x \in src : x <= d})
        old(k) == CHOOSE d \in src : new(d) = k
    IN  [h    |-> [k \in 1..(Len(h) + Cardinality(src)) |->
                      IF k <= Len(h) THEN h[k] ELSE h[old(k)]],
         list |-> [i \in 1..Len(entry_list) |-> new(entry_list[i])]]

\* fork_pid without the 'pid == ppid' early return
fork_pid_no_guard(pm, h, pid, ppid) ==
    LET entry_list == get(pm, ppid)
        c == deepcopy(h, entry_list)
    IN  [pm |-> setitem(pm, pid, c.list), h |-> c.h]

\* fork_pid with the two pids taken the other way round
fork_pid_swapped(pm, h, pid, ppid) ==
    IF pid = ppid THEN [pm |-> pm, h |-> h]
    ELSE LET entry_list == get(pm, pid)
             c == deepcopy(h, entry_list)
         IN  [pm |-> setitem(pm, ppid, c.list), h |-> c.h]

\* ProcessMaps.fork_pid(pid, ppid)
fork_pid(pm, h, pid, ppid) ==
    IF pid = ppid THEN [pm |-> pm, h |-> h]
    ELSE LET entry_list == get(pm, ppid)
             c == deepcopy(h, entry_list)
         IN  [pm |-> setitem(pm, pid, c.list), h |-> c.h]

(* ---------------------------- ProcessMaps.find ------------------------- *)
\* bisect.bisect_left in place of bisect_right
RECURSIVE bisect_left(_, _, _, _, _)
bisect_left(h, a, x, lo, hi) ==
    IF lo < hi
    THEN LET mid == (lo + hi) \div 2
         IN  IF MapEntry_lt(h[a[mid + 1]], x)
             THEN bisect_left(h, a, x, mid + 1, hi)
             ELSE bisect_left(h, a, x, lo, mid)
    ELSE lo

\* bisect.bisect_right(a, x, lo, hi), comparing with MapEntry.__lt__
RECURSIVE bisect_right(_, _, _, _, _)
bisect_right(h, a, x, lo, hi) ==
    IF lo < hi
    THEN LET mid == (lo + hi) \div 2
         IN  IF MapEntry_lt(x, h[a[mid + 1]])
             THEN bisect_right(h, a, x, lo, mid)
             ELSE bisect_right(h, a, x, mid + 1, hi)
    ELSE lo

\* find with the end of a range taken as part of it
find_closed_end(pm, h, pid, addr) ==
    LET key == MapEntry(addr, addr, "")
        entry_list == get(pm, pid)
        pos == bisect_right(h, entry_list, key, 0, Len(entry_list))
    IN  IF pos > 0 /\ h[entry_list[pos]].end >= addr
        THEN entry_list[pos]
        ELSE None

\* ProcessMaps.find(pid, addr): a reference, or None
find(pm, h, pid, addr) ==
    LET key == MapEntry(addr, addr, "")
        entry_list == get(pm, pid)
        pos == bisect_right(h, entry_list, key, 0, Len(entry_list))
    IN  IF pos > 0 /\ h[entry_list[pos]].end > addr
        THEN entry_list[pos]
        ELSE None

(* ---------------------------- strings -------------------------------- *)
\* File names are sequences of pieces of text; 'sub in s' and s.endswith
\* work on them as Python's do on the characters.
str_in(sub, s) ==
    \E i \in 1..(Len(s) - Len(sub) + 1) : SubSeq(s, i, i + Len(sub) - 1) = sub

endswith(s, suffix) ==
    /\ Len(s) >= Len(suffix)
    /\ SubSeq(s, Len(s) - Len(suffix) + 1, Len(s)) = suffix

\* int(s) of a string of decimal digits, given as the sequence of its digits
DigitValue(c) ==
    CASE c = "0" -> 0 [] c = "1" -> 1 [] c = "2" -> 2 [] c = "3" -> 3
      [] c = "4" -> 4 [] c = "5" -> 5 [] c = "6" -> 6 [] c = "7" -> 7
      [] c = "8" -> 8 [] c = "9" -> 9

RECURSIVE int(_)
int(s) ==
    IF Len(s) = 0 THEN 0
    ELSE 10 * int(SubSeq(s, 1, Len(s) - 1)) + DigitValue(s[Len(s)])

JitCodeCache == <<"/dev/ashmem/dalvik-jit-code-cache">>
Anon == <<"//anon">>
LibcSo == <<"libc.so">>

(* ---------------------------- UnwindingTimes --------------------------- *)
max(a, b) == IF a >= b THEN a ELSE b

\* UnwindingTimes.add_time
add_time(ut, used_time) ==
    [total_time |-> ut.total_time + used_time,
     count |-> ut.count + 1,
     max_time |-> max(ut.max_time, used_time)]

(* ---------------------------- call chains ------------------------------ *)
CallChainNode(ip, sp, filename, vaddr_in_file, function_name, map_start_addr, map_end_addr) ==
    [ip |-> ip, sp |-> sp, filename |-> filename,
     vaddr_in_file |-> vaddr_in_file, function_name |-> function_name,
     map_start_addr |-> map_start_addr, map_end_addr |-> map_end_addr]

SampleResult(pid, tid, unwinding_result, callchain) ==
    [pid |-> pid, tid |-> tid, unwinding_result |-> unwinding_result,
     callchain |-> callchain]

\* callchain[-1]
last(callchain) == callchain[Len(callchain)]

\* parse_callchain_record giving every node the map of the first ip
parse_callchain_record_first_ip(pm, h, rec) ==
    LET node(fr) ==
            LET map_entry == find(pm, h, rec.pid, rec.frames[1].ip)
            IN  IF map_entry # None
                THEN CallChainNode(fr.ip, fr.sp, fr.filename, fr.vaddr_in_file,
                                   fr.function_name, h[map_entry].start,
                                   h[map_entry].end)
                ELSE CallChainNode(fr.ip, fr.sp, fr.filename, fr.vaddr_in_file,
                                   fr.function_name, 0, 0)
    IN  [pid |-> rec.pid, tid |-> rec.tid,
         callchain |-> [j \in 1..Len(rec.frames) |-> node(rec.frames[j])]]

\* parse_callchain_record on a well-formed record, whose lines give pid, tid
\* and per frame ip, sp, function name, file name and vaddr in file: every ip
\* is looked up in the process maps as they are now.
parse_callchain_record(pm, h, rec) ==
    LET node(fr) ==
            LET map_entry == find(pm, h, rec.pid, fr.ip)
            IN  IF map_entry # None
                THEN CallChainNode(fr.ip, fr.sp, fr.filename, fr.vaddr_in_file,
                                   fr.function_name, h[map_entry].start,
                                   h[map_entry].end)
                ELSE CallChainNode(fr.ip, fr.sp, fr.filename, fr.vaddr_in_file,
                                   fr.function_name, 0, 0)
    IN  [pid |-> rec.pid, tid |-> rec.tid,
         callchain |-> [j \in 1..Len(rec.frames) |-> node(rec.frames[j])]]

(* ---------------------------- should_omit ------------------------------ *)
is_callchain_complete(callchain) ==
    \E j \in 1..Len(callchain) :
        /\ endswith(callchain[j].filename, LibcSo)
        /\ callchain[j].function_name \in {"__libc_init", "__start_thread"}

\* should_omit without rule 1 (code generated in memory)
should_omit_no_marker(flag, sample_result, joined_record) ==
    IF is_callchain_complete(sample_result.callchain) THEN TRUE
    ELSE IF flag /\ is_callchain_complete(joined_record.callchain) THEN TRUE
    ELSE FALSE

\* should_omit looking at the joined record whatever the flag is
should_omit_joined_always(flag, sample_result, joined_record) ==
    IF \E name \in {JitCodeCache, Anon} :
           str_in(name, last(sample_result.callchain).filename)
    THEN TRUE
    ELSE IF is_callchain_complete(sample_result.callchain) THEN TRUE
    ELSE IF is_callchain_complete(joined_record.callchain) THEN TRUE
    ELSE FALSE

\* UnwindingResultErrorReport.should_omit, flag being
\* self.omit_callchains_fixed_by_joiner
should_omit(flag, sample_result, joined_record) ==
    IF \E name \in {JitCodeCache, Anon} :
           str_in(name, last(sample_result.callchain).filename)
    THEN TRUE
    ELSE IF is_callchain_complete(sample_result.callchain) THEN TRUE
    ELSE IF flag /\ is_callchain_complete(joined_record.callchain) THEN TRUE
    ELSE FALSE

(* ---------------------------- aggregation ------------------------------ *)
\* the most sample results kept per function and stop reason
MaxSampleResults == 10

\* FunctionResult.add_sample_result without the search for a duplicate
FunctionResult_add_sample_result_no_dup(sample_results, objs, ref) ==
    LET stop_reason == objs[ref].sample.unwinding_result.stop_reason
        sr0 == IF stop_reason \notin DOMAIN sample_results
               THEN setitem(sample_results, stop_reason, <<>>)
               ELSE sample_results
        result_list == sr0[stop_reason]
    IN  IF Len(result_list) < MaxSampleResults
        THEN setitem(sr0, stop_reason, Append(result_list, ref))
        ELSE sr0

\* FunctionResult.add_sample_result with 'len(result_list) <= 10'
FunctionResult_add_sample_result_off_by_one(sample_results, objs, ref) ==
    LET stop_reason == objs[ref].sample.unwinding_result.stop_reason
        sr0 == IF stop_reason \notin DOMAIN sample_results
               THEN setitem(sample_results, stop_reason, <<>>)
               ELSE sample_results
        result_list == sr0[stop_reason]
        vaddr(r) == last(objs[r].sample.callchain).vaddr_in_file
    IN  IF \E i \in 1..Len(result_list) : vaddr(result_list[i]) = vaddr(ref)
        THEN sr0
        ELSE IF Len(result_list) <= MaxSampleResults
             THEN setitem(sr0, stop_reason, Append(result_list, ref))
             ELSE sr0

\* FunctionResult.add_sample_result putting the newest result first
FunctionResult_add_sample_result_newest_first(sample_results, objs, ref) ==
    LET stop_reason == objs[ref].sample.unwinding_result.stop_reason
        sr0 == IF stop_reason \notin DOMAIN sample_results
               THEN setitem(sample_results, stop_reason, <<>>)
               ELSE sample_results
        result_list == sr0[stop_reason]
        vaddr(r) == last(objs[r].sample.callchain).vaddr_in_file
    IN  IF \E i \in 1..Len(result_list) : vaddr(result_list[i]) = vaddr(ref)
        THEN sr0
        ELSE IF Len(result_list) < MaxSampleResults
             THEN setitem(sr0, stop_reason, <<ref>> \o result_list)
             ELSE sr0

\* FunctionResult.add_sample_result: sample_results is self.sample_results,
\* ref the SampleResult object objs[ref].sample
FunctionResult_add_sample_result(sample_results, objs, ref) ==
    LET stop_reason == objs[ref].sample.unwinding_result.stop_reason
        sr0 == IF stop_reason \notin DOMAIN sample_results
                  \/ sample_results[stop_reason] = <<>>
               THEN setitem(sample_results, stop_reason, <<>>)
               ELSE sample_results
        result_list == sr0[stop_reason]
        vaddr(r) == last(objs[r].sample.callchain).vaddr_in_file
    IN  IF \E i \in 1..Len(result_list) : vaddr(result_list[i]) = vaddr(ref)
        THEN sr0
        ELSE IF Len(result_list) < MaxSampleResults
             THEN setitem(sr0, stop_reason, Append(result_list, ref))
             ELSE sr0

\* FileResult.add_sample_result: function_results is self.function_results
FileResult_add_sample_result(function_results, objs, ref) ==
    LET function_name == last(objs[ref].sample.callchain).function_name
        function_result == IF function_name \in DOMAIN function_results
                           THEN function_results[function_name]
                           ELSE <<>>
    IN  setitem(function_results, function_name,
                FunctionResult_add_sample_result(function_result, objs, ref))

\* add_sample_result making the FileResult before it asks should_omit
UnwindingResultErrorReport_add_sample_result_entry_first(flag, ut, fr, objs, ref) ==
    LET sample_result == objs[ref].sample
        joined_record == objs[ref].joined
        ut1 == add_time(ut, int(sample_result.unwinding_result.used_time))
        filename == last(sample_result.callchain).filename
        file_result == IF filename \in DOMAIN fr THEN fr[filename] ELSE <<>>
    IN  IF should_omit(flag, sample_result, joined_record)
        THEN [unwinding_times |-> ut1,
              file_results |-> setitem(fr, filename, file_result)]
        ELSE [unwinding_times |-> ut1,
              file_results |->
                  setitem(fr, filename,
                          FileResult_add_sample_result(file_result, objs, ref))]

\* add_sample_result counting the time of the samples it keeps only
UnwindingResultErrorReport_add_sample_result_time_kept(flag, ut, fr, objs, ref) ==
    LET sample_result == objs[ref].sample
        joined_record == objs[ref].joined
    IN  IF should_omit(flag, sample_result, joined_record)
        THEN [unwinding_times |-> ut, file_results |-> fr]
        ELSE LET filename == last(sample_result.callchain).filename
                 file_result == IF filename \in DOMAIN fr THEN fr[filename]
                                ELSE <<>>
             IN  [unwinding_times |->
                      add_time(ut, int(sample_result.unwinding_result.used_time)),
                  file_results |->
                      setitem(fr, filename,
                              FileResult_add_sample_result(file_result, objs, ref))]

\* UnwindingResultErrorReport.add_sample_result: the new unwinding_times and
\* file_results
UnwindingResultErrorReport_add_sample_result(flag, ut, fr, objs, ref) ==
    LET sample_result == objs[ref].sample
        joined_record == objs[ref].joined
        ut1 == add_time(ut, int(sample_result.unwinding_result.used_time))
    IN  IF should_omit(flag, sample_result, joined_record)
        THEN [unwinding_times |-> ut1, file_results |-> fr]
        ELSE LET filename == last(sample_result.callchain).filename
                 file_result == IF filename \in DOMAIN fr THEN fr[filename]
                                ELSE <<>>
             IN  [unwinding_times |-> ut1,
                  file_results |->
                      setitem(fr, filename,
                              FileResult_add_sample_result(file_result, objs, ref))]

(* ---------------------------- actions ---------------------------------- *)
\* UnwindingResultErrorReport(omit_callchains_fixed_by_joiner)
NewReport(flag) ==
    /\ heap = <<>>
    /\ process_maps = <<>>
    /\ omit_callchains_fixed_by_joiner = flag
    /\ samples = <<>>
    /\ unwinding_times = [total_time |-> 0, count |-> 0, max_time |-> 0]
    /\ file_results = <<>>
    /\ pc = "build"

\* the report as main builds it when --omit-callchains-fixed-by-joiner is
\* not given
Init == NewReport(FALSE)

\* build_unwinding_result_report, 'record mmap:' branch with the given fields
MmapRecord(pid, start, end, filename) ==
    /\ pc = "build"
    /\ \E r \in {add_new(process_maps, heap, pid, start, end, filename)} :
         \E c \in {Collect(r.pm, r.h)} :
           /\ heap' = c.h
           /\ process_maps' = c.pm
           /\ UNCHANGED <<reportVars, pc>>

\* build_unwinding_result_report, 'record fork:' branch
ForkRecord(pid, ppid) ==
    /\ pc = "build"
    /\ \E r \in {fork_pid(process_maps, heap, pid, ppid)} :
         \E c \in {Collect(r.pm, r.h)} :
           /\ heap' = c.h
           /\ process_maps' = c.pm
           /\ UNCHANGED <<reportVars, pc>>

\* build_unwinding_result_report, 'record unwinding_result:' branch, for a
\* well-formed event ev: the unwinding_result keys and the two callchain
\* records that follow
UnwindingRecord(ev) ==
    LET original_record == parse_callchain_record(process_maps, heap, ev.original)
        joined_record == parse_callchain_record(process_maps, heap, ev.joined)
        sample_result == SampleResult(original_record.pid, original_record.tid,
                                      ev.unwinding_result,
                                      original_record.callchain)
        objs == Append(samples, [sample |-> sample_result,
                                 joined |-> joined_record])
        r == UnwindingResultErrorReport_add_sample_result(
                 omit_callchains_fixed_by_joiner, unwinding_times,
                 file_results, objs, Len(objs))
    IN  /\ pc = "build"
        /\ samples' = objs
        /\ unwinding_times' = r.unwinding_times
        /\ file_results' = r.file_results
        /\ UNCHANGED <<mapVars, omit_callchains_fixed_by_joiner, pc>>

Mmap == \E pid \in Pids, start \in Addrs, end \in Addrs, f \in MapFilenames :
            start < end /\ MmapRecord(pid, start, end, f)

Fork == \E pid \in Pids, ppid \in Pids : ForkRecord(pid, ppid)

Next == Mmap \/ Fork

\* Traces of mmap records and fork records. The mmap records drawn have a
\* positive length (start < end), as the records of a mapped region do; a
\* record of length 0 is not among the inputs.
Spec == Init /\ [][Next]_vars

\* Traces in which pid 2 first appears as the child of a fork record.
MmapLive == \E pid \in Pids, start \in Addrs, end \in Addrs, f \in MapFilenames :
                /\ start < end
                /\ pid \in {1} \cup DOMAIN process_maps
                /\ MmapRecord(pid, start, end, f)

ForkChild == ForkRecord(2, 1)

NextFork == MmapLive \/ ForkChild

SpecFork == Init /\ [][NextFork]_vars

(* ---------------------------- traces of samples ------------------------ *)
\* most unwinding_result records in a trace of SpecReport
MaxSamples == 2
\* most unwinding_result records in a trace of SpecCap
MaxCapSamples == 12

LibA == <<"/system/lib/", "liba.so">>
LibB == <<"/system/lib/", "libb.so">>
LibC == <<"/system/lib/", "libc.so">>
AnonExec == <<"[anon:", "//anon", "]">>
JitCache == <<"/dev/ashmem/dalvik-jit-code-cache", " (deleted)">>
StopReasons == {"1", "2"}

\* one line pair of a callchain record
Frame(function_name, filename, vaddr_in_file) ==
    [ip |-> 1, sp |-> 0, function_name |-> function_name,
     filename |-> filename, vaddr_in_file |-> vaddr_in_file]

\* an unwinding_result record with its ORIGINAL_OFFLINE and JOINED_OFFLINE
\* callchain records
Event(pid, tid, time, stop_reason, frames, joined_frames) ==
    [unwinding_result |-> [time |-> time, used_time |-> <<"1", "2">>,
                           stop_reason |-> stop_reason],
     original |-> [pid |-> pid, tid |-> tid, frames |-> frames],
     joined |-> [pid |-> pid, tid |-> tid, frames |-> joined_frames]]

CompleteFrame == Frame("__start_thread", LibC, 4)
JoinedPlain == <<Frame("g", LibA, 2), Frame("f", LibA, 0)>>
JoinedComplete == <<Frame("f", LibA, 0), Frame("__libc_init", LibC, 3)>>

\* who and when: pid, tid, time
Whos == {<<1, 1, "100">>, <<2, 3, "200">>}

\* Samples that differ in who, stop reason, anchor file and anchor offset,
\* and samples that differ in what the classifier looks at.
ReportEvents ==
    {Event(w[1], w[2], w[3], sr, <<Frame("f", file, off)>>, JoinedPlain) :
        w \in Whos, sr \in StopReasons, file \in {LibA, LibB}, off \in {0, 1}}
    \cup
    {Event(1, 1, "100", "1", prefix \o <<Frame("f", file, 0)>>, joined) :
        file \in {LibA, AnonExec, JitCache},
        prefix \in {<<>>, <<CompleteFrame>>},
        joined \in {JoinedPlain, JoinedComplete}}

InitReport == \E flag \in BOOLEAN : NewReport(flag)

Sample == \E ev \in ReportEvents :
              /\ Len(samples) < MaxSamples
              /\ UnwindingRecord(ev)

SpecReport == InitReport /\ [][Sample]_vars

\* Samples of one file, function and stop reason: the k-th of the trace
\* either repeats offset 0 or brings the offset k, which no earlier one had.
CapEvents ==
    {Event(1, 1, "100", "1", <<Frame("f", LibA, off)>>, JoinedPlain) :
        off \in {0, Len(samples) + 1}}

CapSample == \E ev \in CapEvents :
                 /\ Len(samples) < MaxCapSamples
                 /\ UnwindingRecord(ev)

SpecCap == InitReport /\ [][CapSample]_vars

\* Traces that mix the three kinds of record. One mmap record and one fork
\* record may come at any time; the k-th unwinding_result record brings the
\* offset k, and each of the first MaxVaried may instead repeat offset 0 or
\* have its anchor in anonymous executable memory.
MaxVaried == 3
\* most unwinding_result records in a trace of SpecCount
MaxCountSamples == 13

CountEvents ==
    IF Len(samples) < MaxVaried
    THEN {Event(1, 1, "100", "1", <<Frame("f", file, off)>>, JoinedPlain) :
             file \in {LibA, AnonExec}, off \in {0, Len(samples) + 1}}
    ELSE {Event(1, 1, "100", "1", <<Frame("f", LibA, Len(samples) + 1)>>,
                JoinedPlain)}

CountSample == \E ev \in CountEvents :
                   /\ Len(samples) < MaxCountSamples
                   /\ UnwindingRecord(ev)

CountMmap == MmapRecord(1, 2, 3, "a")

NextCount == CountSample \/ CountMmap \/ ForkChild

SpecCount == Init /\ [][NextCount]_vars

\* most unwinding_result records in a trace of SpecOmit
MaxOmitSamples == 2

MyLibc == <<"/system/lib/", "my", "libc.so">>
LibcSo1 == <<"/system/lib/", "libc.so", ".1">>

\* Samples that differ in what should_omit looks at and in what it must not
\* look at: the anchor file, a frame above the anchor (none, an entry
\* function of libc.so or of a file whose name ends the same way, an entry
\* function name in another file, another function of libc.so, a frame in
\* the JIT cache), and the joined chain.
OmitEvents ==
    {Event(1, 1, "100", "1", <<Frame("f", file, 0)>>, joined) :
        file \in {LibA, LibC, AnonExec, JitCache},
        joined \in {JoinedPlain, JoinedComplete}}
    \cup
    {Event(1, 1, "100", "1", <<above, Frame("f", LibA, 0)>>, joined) :
        above \in {CompleteFrame,
                   Frame("__libc_init", MyLibc, 3),
                   Frame("__libc_init", LibcSo1, 3),
                   Frame("__start_thread", LibA, 4),
                   Frame("g", LibC, 4),
                   Frame("g", JitCache, 4)},
        joined \in {JoinedPlain, JoinedComplete}}
    \cup
    {Event(1, 1, "100", "1", <<CompleteFrame, Frame("f", AnonExec, 0)>>,
           JoinedComplete)}

OmitSample == \E ev \in OmitEvents :
                  /\ Len(samples) < MaxOmitSamples
                  /\ UnwindingRecord(ev)

SpecOmit == InitReport /\ [][OmitSample]_vars

\* most unwinding_result records in a trace of SpecTrace
MaxTraceSamples == 2

\* a line pair of a callchain record with the given ip
FrameAt(ip, function_name, vaddr_in_file) ==
    [ip |-> ip, sp |-> 0, function_name |-> function_name,
     filename |-> LibA, vaddr_in_file |-> vaddr_in_file]

\* Samples of either process whose frames have their ip at 0 or at 2.
TraceEvents ==
    {Event(pid, pid, "100", "1", chain, <<FrameAt(0, "g", 2), FrameAt(2, "f", 0)>>) :
        pid \in Pids,
        chain \in {<<FrameAt(0, "f", 0)>>, <<FrameAt(2, "f", 1)>>,
                   <<FrameAt(2, "g", 2), FrameAt(0, "f", 3)>>}}

TraceSample == \E ev \in TraceEvents :
                   /\ Len(samples) < MaxTraceSamples
                   /\ UnwindingRecord(ev)

\* The mmap records of process 1: a mapping of a at [0,3) and a mapping of b
\* at [2,3), each of which cuts or replaces what the other left there.
TraceMmap == \E rec \in {<<0, 3, "a">>, <<2, 3, "b">>} :
                 MmapRecord(1, rec[1], rec[2], rec[3])

NextTrace == TraceSample \/ TraceMmap \/ ForkChild

\* Traces that mix mmap, fork and unwinding_result records.
SpecTrace == Init /\ [][NextTrace]_vars

\* most unwinding_result records in a trace of SpecKeys
MaxKeySamples == 3

\* Samples that differ in the file and the function of their anchor and in
\* their stop reason, below a frame of another file and function; and
\* samples that the classifier omits.
KeyEvents ==
    {Event(1, 1, "100", sr,
           <<Frame("h", LibB, 5), Frame(function_name, file, 0)>>,
           JoinedPlain) :
        sr \in StopReasons, function_name \in {"f", "g"},
        file \in {LibA, LibB}}
    \cup
    {Event(1, 1, "100", "1", <<Frame("h", LibB, 5), Frame("f", AnonExec, 0)>>,
           JoinedPlain),
     Event(1, 1, "100", "1", <<CompleteFrame, Frame("g", LibA, 0)>>,
           JoinedPlain),
     Event(1, 1, "100", "2", <<Frame("h", LibB, 5), Frame("g", LibB, 0)>>,
           JoinedComplete)}

KeySample == \E ev \in KeyEvents :
                 /\ Len(samples) < MaxKeySamples
                 /\ UnwindingRecord(ev)

SpecKeys == InitReport /\ [][KeySample]_vars

(* ---------------------------- malformed records ------------------------ *)
\* The lines of one callchain record as parse_callchain_record collects
\* them: pid, tid, the chain_type tag, the ip/sp pairs and the
\* function/file/offset triples.
CallChainLines(pid, tid, chain_type, ips, function_names) ==
    [pid |-> pid, tid |-> tid, chain_type |-> chain_type, ips |-> ips,
     function_names |-> function_names]

\* parse_callchain_record calling log_fatal whatever the chain_type tag is
callchain_record_fatal_any_type(rec, chain_type) ==
    \/ None \in {rec.pid, rec.tid}
    \/ Len(rec.ips) = 0
    \/ Len(rec.function_names) # Len(rec.ips)

\* parse_callchain_record calls log_fatal: on a chain_type line with another
\* tag than the expected one, and after the lines when pid or tid is
\* missing, no ip line was read, or the lists differ in length
callchain_record_fatal(rec, chain_type) ==
    \/ rec.chain_type # chain_type
    \/ None \in {rec.pid, rec.tid}
    \/ Len(rec.ips) = 0
    \/ Len(rec.function_names) # Len(rec.ips)

RequiredKeys == {"time", "used_time", "stop_reason"}

\* the 'record unwinding_result:' branch calls log_fatal
unwinding_record_fatal(raw) ==
    \/ \E key \in RequiredKeys : key \notin DOMAIN raw.unwinding_result
    \/ callchain_record_fatal(raw.original, "ORIGINAL_OFFLINE")
    \/ callchain_record_fatal(raw.joined, "JOINED_OFFLINE")

\* the frames of a record whose lists have the same length
frames(rec) ==
    [j \in 1..Len(rec.ips) |->
        [ip |-> rec.ips[j].ip, sp |-> rec.ips[j].sp,
         function_name |-> rec.function_names[j].function_name,
         filename |-> rec.function_names[j].filename,
         vaddr_in_file |-> rec.function_names[j].vaddr_in_file]]

\* utils.log_fatal: the run ends with an error, at once
log_fatal ==
    /\ pc' = "fatal"
    /\ UNCHANGED <<mapVars, reportVars>>

\* build_unwinding_result_report, 'record unwinding_result:' branch, on the
\* lines of any event
UnwindingLines(raw) ==
    /\ pc = "build"
    /\ IF unwinding_record_fatal(raw)
       THEN log_fatal
       ELSE UnwindingRecord(
                [unwinding_result |-> raw.unwinding_result,
                 original |-> [pid |-> raw.original.pid,
                               tid |-> raw.original.tid,
                               frames |-> frames(raw.original)],
                 joined |-> [pid |-> raw.joined.pid, tid |-> raw.joined.tid,
                             frames |-> frames(raw.joined)]])

\* main: the records are read and the report is shown; the dump of a trace
\* that gets here holds an unwinding_result record
Show ==
    /\ pc = "build"
    /\ Len(samples) >= 1
    /\ pc' = "shown"
    /\ UNCHANGED <<mapVars, reportVars>>

\* most unwinding_result records in a trace of SpecParse
MaxParseSamples == 2

IpSp == [ip |-> 1, sp |-> 0]
Triple(function_name, filename, vaddr_in_file) ==
    [function_name |-> function_name, filename |-> filename,
     vaddr_in_file |-> vaddr_in_file]
FullResult(stop_reason) ==
    [time |-> "100", used_time |-> <<"1", "2">>, stop_reason |-> stop_reason]
GoodOriginal(filename) ==
    CallChainLines(1, 1, "ORIGINAL_OFFLINE", <<IpSp>>,
                   <<Triple("f", filename, 0)>>)
GoodJoined ==
    CallChainLines(1, 1, "JOINED_OFFLINE", <<IpSp, IpSp>>,
                   <<Triple("g", LibA, 2), Triple("f", LibA, 0)>>)
RawEvent(unwinding_result, original, joined) ==
    [unwinding_result |-> unwinding_result, original |-> original,
     joined |-> joined]

\* events whose lines are as simpleperf dump writes them
GoodEvents ==
    {RawEvent(FullResult(sr), GoodOriginal(file), GoodJoined) :
        sr \in StopReasons, file \in {LibA, LibB}}

\* events with one defect: a key of the unwinding_result is missing, or one
\* of the callchain records has no frame, has lists of different lengths,
\* or has the tag of the other record
BadEvents ==
    {RawEvent(ur, GoodOriginal(LibA), GoodJoined) :
        ur \in {[time |-> "100", used_time |-> <<"1", "2">>],
                [time |-> "100", stop_reason |-> "1"],
                [used_time |-> <<"1", "2">>, stop_reason |-> "1"]}}
    \cup
    {RawEvent(FullResult("1"), original, GoodJoined) :
        original \in
            {CallChainLines(1, 1, "ORIGINAL_OFFLINE", <<>>, <<>>),
             CallChainLines(1, 1, "ORIGINAL_OFFLINE", <<IpSp>>, <<>>),
             CallChainLines(1, 1, "ORIGINAL_OFFLINE", <<IpSp>>,
                            <<Triple("g", LibA, 2), Triple("f", LibA, 0)>>),
             CallChainLines(1, 1, "ORIGINAL_OFFLINE", <<IpSp, IpSp>>,
                            <<Triple("f", LibA, 0)>>),
             CallChainLines(1, 1, "JOINED_OFFLINE", <<IpSp>>,
                            <<Triple("f", LibA, 0)>>)}}
    \cup
    {RawEvent(FullResult("1"), GoodOriginal(LibA), joined) :
        joined \in
            {CallChainLines(1, 1, "JOINED_OFFLINE", <<>>, <<>>),
             CallChainLines(1, 1, "JOINED_OFFLINE", <<IpSp>>,
                            <<Triple("g", LibA, 2), Triple("f", LibA, 0)>>),
             CallChainLines(1, 1, "ORIGINAL_OFFLINE", <<IpSp, IpSp>>,
                            <<Triple("g", LibA, 2), Triple("f", LibA, 0)>>)}}

ParseEvents == GoodEvents \cup BadEvents

ParseSample == \E raw \in ParseEvents :
                   /\ Len(samples) < MaxParseSamples
                   /\ UnwindingLines(raw)

ParseMmap == CountMmap

NextParse == ParseSample \/ ParseMmap \/ ForkChild \/ Show

SpecParse == InitReport /\ [][NextParse]_vars

(* ---------------------------- lines of mmap records -------------------- *)
\* s.strip() of a text given as its pieces, " " being white space
RECURSIVE lstrip(_)
lstrip(s) ==
    IF Len(s) >= 1 /\ s[1] = " " THEN lstrip(Tail(s)) ELSE s

RECURSIVE rstrip(_)
rstrip(s) ==
    IF Len(s) >= 1 /\ s[Len(s)] = " " THEN rstrip(SubSeq(s, 1, Len(s) - 1))
    ELSE s

strip(s) == rstrip(lstrip(s))

\* The lines of one mmap record. pid_line holds the pid, addr and len that
\* the regular expression finds in the '  pid' line, and is empty when
\* there is no such line or no match; pgoff_line holds the text behind
\* 'filename' in the '  pgoff' line, and is empty when there is no such line.
MmapRecordLines(pid_line, pgoff_line) ==
    [pid_line |-> pid_line, pgoff_line |-> pgoff_line]

\* None in [pid, start, end, filename]: pid, start and end are set together
\* by the '  pid' line, filename by the '  pgoff' line, to a string
mmap_record_fatal(raw) ==
    \/ raw.pid_line = <<>>
    \/ raw.pgoff_line = <<>>

\* build_unwinding_result_report, 'record mmap:' branch, on the lines of any
\* mmap record
MmapLines(raw) ==
    /\ pc = "build"
    /\ IF mmap_record_fatal(raw)
       THEN log_fatal
       ELSE LET pid == raw.pid_line[1].pid
                start == raw.pid_line[1].addr
                end == start + raw.pid_line[1].len
                filename == strip(raw.pgoff_line[1])
            IN  MmapRecord(pid, start, end, filename)

\* The records drawn: with or without each of the two lines, the file name
\* a or b with white space around it, or nothing but white space behind
\* 'filename'.
LineRecords ==
    {MmapRecordLines(pid_line, pgoff_line) :
        pid_line \in {<<>>} \cup
            {<<[pid |-> 1, addr |-> r[1], len |-> r[2] - r[1]]>> :
                r \in {x \in Addrs \X Addrs : x[1] < x[2]}},
        pgoff_line \in {<<>>, <<<<" ", "a">>>>, <<<<" ", "b", " ">>>>,
                        <<<<" ">>>>, <<<<>>>>}}

LinesMmap == \E raw \in LineRecords : MmapLines(raw)

SpecLines == Init /\ [][LinesMmap]_vars

(* ---------------------------- views ------------------------------------ *)
\* the ranges of a pid, by value
RangesIn(pm, h, pid) ==
    LET l == get(pm, pid)
    IN  [i \in 1..Len(l) |-> h[l[i]]]

Ranges(pid) == RangesIn(process_maps, heap, pid)

\* the filename find resolves an address to, "" when there is none
Resolve(pid, addr) ==
    LET x == find(process_maps, heap, pid, addr)
    IN  IF x = None THEN "" ELSE heap[x].filename

Covers(r, addr) == r.start <= addr /\ addr < r.end

(* ======================================================================= *)
(* Properties of ProcessMaps                                               *)
(* ======================================================================= *)
Sorted(l) == \A i \in 1..(Len(l) - 1) : l[i].start <= l[i + 1].start
NonOverlapping(l) == \A i \in 1..(Len(l) - 1) : l[i].end <= l[i + 1].start
NonEmptyRanges(l) == \A i \in 1..Len(l) : l[i].start < l[i].end

\* C1: after any sequence of add and fork_pid operations whose inserted
\* ranges have start < end, the list of every pid is sorted by start, pairwise
\* non-overlapping (r1.end <= r2.start for consecutive ranges), and every
\* stored range has start < end.
C1_SortedNonOverlapping ==
    \A pid \in DOMAIN process_maps :
        /\ Sorted(Ranges(pid))
        /\ NonOverlapping(Ranges(pid))
        /\ NonEmptyRanges(Ranges(pid))

\* An insert has truncated a neighbour on each side, and a fork has copied a
\* list of several ranges.
C1_Witness ==
    /\ DOMAIN process_maps = Pids
    /\ \E pid \in Pids : Len(Ranges(pid)) >= 3
    /\ \A pid \in Pids : Len(Ranges(pid)) >= 2

\* C2: a new range strictly inside an existing range splits it in two: the
\* part of the old range below the new start, the new range, and the part of
\* the old range above the new end, as [0,3)@a then [1,2)@b giving
\* [0,1)@a, [1,2)@b, [2,3)@a.
C2_SplitInside ==
    [][\A pid \in Pids, s \in Addrs, e \in Addrs, f \in MapFilenames :
          (s < e /\ MmapRecord(pid, s, e, f)) =>
              \A i \in 1..Len(Ranges(pid)) :
                  LET r == Ranges(pid)[i]
                  IN  (r.start < s /\ e < r.end) =>
                          \E k \in 1..(Len(Ranges(pid)') - 2) :
                              /\ Ranges(pid)'[k] = MapEntry(r.start, s, r.filename)
                              /\ Ranges(pid)'[k + 1] = MapEntry(s, e, f)
                              /\ Ranges(pid)'[k + 2] = MapEntry(e, r.end, r.filename)
      ]_vars

\* C3: last insert wins at every address: an insert of [s,e)@f makes find
\* resolve every address of [s,e) to f and leaves the resolution of every
\* other address of that pid as it was (not-found included), which is the
\* step of a reference map that overwrites [s,e) with f.
C3_LastInsertWins ==
    [][\A pid \in Pids, s \in Addrs, e \in Addrs, f \in MapFilenames :
          (s < e /\ MmapRecord(pid, s, e, f)) =>
              \A a \in Addrs :
                  Resolve(pid, a)' = IF s <= a /\ a < e THEN f ELSE Resolve(pid, a)
      ]_vars

\* C4: find(pid, addr) returns the unique stored range of the pid with
\* start <= addr < end when there is one, and not-found otherwise (a gap,
\* below the lowest start, at or above the highest end, a pid with no entry).
C4_FindCovering ==
    \A pid \in Pids, addr \in Addrs :
        LET l == get(process_maps, pid)
            hits == {i \in 1..Len(l) : Covers(heap[l[i]], addr)}
            x == find(process_maps, heap, pid, addr)
        IN  /\ Cardinality(hits) <= 1
            /\ hits = {} => x = None
            /\ \A i \in hits : x = l[i]

\* One pid has two ranges with a gap between them, the other has no entry.
C4_Witness ==
    \E pid \in Pids :
        /\ pid \in DOMAIN process_maps
        /\ Len(Ranges(pid)) = 2
        /\ Ranges(pid)[1].end < Ranges(pid)[2].start
        /\ find(process_maps, heap, pid, Ranges(pid)[1].end) = None
        /\ find(process_maps, heap, pid, Ranges(pid)[2].start) # None
        /\ \E q \in Pids : q \notin DOMAIN process_maps

\* C5 as stated: for every stored range r, find(pid, r.end) is not-found, and
\* find of an address below every stored start is not-found.
C5_EndNotFound ==
    \A pid \in Pids :
        /\ \A i \in 1..Len(Ranges(pid)) :
               find(process_maps, heap, pid, Ranges(pid)[i].end) = None
        /\ \A a \in Addrs :
               (\A i \in 1..Len(Ranges(pid)) : a < Ranges(pid)[i].start) =>
                   find(process_maps, heap, pid, a) = None

\* C5 amended: find(pid, r.end) never returns r; it returns the stored range
\* that contains r.end when there is one (the range adjacent above r) and
\* not-found otherwise; below every stored start it is not-found.
C5_EndExclusive ==
    \A pid \in Pids :
        LET l == get(process_maps, pid)
        IN  /\ \A i \in 1..Len(l) :
                   LET x == find(process_maps, heap, pid, heap[l[i]].end)
                       above == {j \in 1..Len(l) : Covers(heap[l[j]], heap[l[i]].end)}
                   IN  /\ x # l[i]
                       /\ above = {} => x = None
                       /\ \A j \in above : x = l[j]
            /\ \A a \in Addrs :
                   (\A i \in 1..Len(l) : a < heap[l[i]].start) =>
                       find(process_maps, heap, pid, a) = None

\* A range with an adjacent range above it, a range with a gap above it, and
\* an address below all ranges.
C5_Witness ==
    \E pid \in Pids :
        /\ Len(Ranges(pid)) = 2
        /\ Ranges(pid)[1].start > 0
        /\ Ranges(pid)[1].end = Ranges(pid)[2].start
        /\ find(process_maps, heap, pid, Ranges(pid)[1].end) # None
        /\ find(process_maps, heap, pid, Ranges(pid)[2].end) = None

\* C6: once fork_pid(child, parent) has created the child, every insert into
\* one of the two pids leaves every range (start, end, filename) of the other
\* pid unchanged, also when the insert truncates a range that existed at fork
\* time.
C6_ForkIsolation ==
    2 \in DOMAIN process_maps =>
        \A pid \in Pids, s \in Addrs, e \in Addrs, f \in MapFilenames :
            s < e =>
                LET h0 == Append(heap, MapEntry(s, e, f))
                    r == add(process_maps, h0, pid, Len(h0))
                IN  \A q \in Pids \ {pid} :
                        RangesIn(r.pm, r.h, q) = Ranges(q)

\* The child exists (so a fork has happened), and since the fork an insert
\* has truncated a range in one of the two overlays that the other still
\* holds whole.
C6_Witness ==
    /\ DOMAIN process_maps = Pids
    /\ \E p \in Pids, q \in Pids :
          /\ p # q
          /\ \E i \in 1..Len(Ranges(p)), j \in 1..Len(Ranges(q)) :
                /\ Ranges(p)[i].start = Ranges(q)[j].start
                /\ Ranges(p)[i].filename = Ranges(q)[j].filename
                /\ Ranges(p)[i].end < Ranges(q)[j].end

\* C7: fork_pid(p, p) leaves the whole registry unchanged for every pid p,
\* present or absent: the overlay of p is neither emptied nor created.
C7_SelfForkNoOp ==
    \A p \in Pids :
        LET r == fork_pid(process_maps, heap, p, p)
        IN  /\ r.pm = process_maps
            /\ r.h = heap

\* A registry where one pid has ranges and the other has no entry.
C7_Witness ==
    \E p \in Pids, q \in Pids :
        /\ p \in DOMAIN process_maps
        /\ Len(Ranges(p)) >= 2
        /\ q \notin DOMAIN process_maps

(* ======================================================================= *)
(* More properties of ProcessMaps                                          *)
(* ======================================================================= *)
\* the number of ranges of l equal to r
Count(l, r) == Cardinality({j \in 1..Len(l) : l[j] = r})

\* C13: when a new range [s,e)@f starts strictly inside an existing range and
\* ends at or beyond its end, the existing range is truncated to end at s, the
\* new range follows it and appears exactly once, and nothing of the old
\* coverage is left in [s,e); [0,2)@a then [1,3)@b gives exactly
\* [0,1)@a, [1,3)@b.
C13_RightOverlap ==
    \A pid \in Pids, s \in Addrs, e \in Addrs, f \in MapFilenames :
        s < e =>
            LET r == add_new(process_maps, heap, pid, s, e, f)
                new == RangesIn(r.pm, r.h, pid)
                old == Ranges(pid)
            IN  /\ \A i \in 1..Len(old) :
                       (old[i].start < s /\ s < old[i].end /\ old[i].end <= e) =>
                           /\ \E k \in 1..(Len(new) - 1) :
                                  /\ new[k] = MapEntry(old[i].start, s, old[i].filename)
                                  /\ new[k + 1] = MapEntry(s, e, f)
                                  /\ k + 1 < Len(new) => new[k + 2].start >= e
                           /\ Count(new, MapEntry(s, e, f)) = 1
                           /\ Cardinality({j \in 1..Len(new) : r.pm[pid][j] = Len(r.h)}) = 1
                /\ (old = <<MapEntry(0, 2, "a")>> /\ s = 1 /\ e = 3 /\ f = "b") =>
                       new = <<MapEntry(0, 1, "a"), MapEntry(1, 3, "b")>>

\* One pid holds [0,2)@a and the other, forked from it, holds the result of
\* inserting [1,3)@b.
C13_Witness ==
    \E p \in Pids, q \in Pids :
        /\ Ranges(p) = <<MapEntry(0, 2, "a")>>
        /\ Ranges(q) = <<MapEntry(0, 1, "a"), MapEntry(1, 3, "b")>>

Active(pm, h, p) == Len(RangesIn(pm, h, p)) >= 1

\* C14 as stated: a pid whose overlay holds at least one range still holds at
\* least one range after any insert and any fork_pid on any pid, and a pid
\* that has an entry never loses it.
C14_GrowOnly ==
    /\ \A pid \in Pids, s \in Addrs, e \in Addrs, f \in MapFilenames :
           s < e =>
               LET r == add_new(process_maps, heap, pid, s, e, f)
               IN  \A p \in Pids :
                       /\ p \in DOMAIN process_maps => p \in DOMAIN r.pm
                       /\ Active(process_maps, heap, p) => Active(r.pm, r.h, p)
    /\ \A pid \in Pids, ppid \in Pids :
           LET r == fork_pid(process_maps, heap, pid, ppid)
           IN  \A p \in Pids :
                   /\ p \in DOMAIN process_maps => p \in DOMAIN r.pm
                   /\ Active(process_maps, heap, p) => Active(r.pm, r.h, p)

\* C14 amended: the same, except for fork_pid(p, ppid) onto the pid p itself
\* from another pid ppid that holds no range: it replaces the overlay of p by
\* the empty copy.
C14_GrowOnlyButForkOnto ==
    /\ \A pid \in Pids, s \in Addrs, e \in Addrs, f \in MapFilenames :
           s < e =>
               LET r == add_new(process_maps, heap, pid, s, e, f)
               IN  \A p \in Pids :
                       /\ p \in DOMAIN process_maps => p \in DOMAIN r.pm
                       /\ Active(process_maps, heap, p) => Active(r.pm, r.h, p)
    /\ \A pid \in Pids, ppid \in Pids :
           LET r == fork_pid(process_maps, heap, pid, ppid)
               onto(p) == pid = p /\ ppid # p /\ ~Active(process_maps, heap, ppid)
           IN  \A p \in Pids :
                   /\ p \in DOMAIN process_maps => p \in DOMAIN r.pm
                   /\ (Active(process_maps, heap, p) /\ ~onto(p))
                          => Active(r.pm, r.h, p)
                   /\ (Active(process_maps, heap, p) /\ onto(p))
                          => RangesIn(r.pm, r.h, p) = <<>>

\* One pid has an entry without ranges, which only a fork makes, and the
\* other holds ranges.
C14_Witness ==
    \E p \in Pids, q \in Pids :
        /\ p \in DOMAIN process_maps
        /\ Ranges(p) = <<>>
        /\ Len(Ranges(q)) >= 2

\* The mmap records of one process alone, over a wider address space: every
\* overlay one pid can hold there.
MaxAddrOne == 4

AddrsOne == 0..MaxAddrOne

MmapOne ==
    \E start \in AddrsOne, end \in AddrsOne, filename \in MapFilenames :
        /\ start < end
        /\ MmapRecord(1, start, end, filename)

NextOne == MmapOne

SpecOne == Init /\ [][NextOne]_vars

\* C19: inserting [s,e)@f1 and then [s,e)@f2 gives the same ranges as
\* inserting [s,e)@f2 alone, with [s,e) present once; with f1 = f2 the second
\* insert changes nothing.
C19_ReinsertIdempotent ==
    \A pid \in Pids, s \in AddrsOne, e \in AddrsOne :
        s < e =>
            LET once == [f \in MapFilenames |->
                            add_new(process_maps, heap, pid, s, e, f)]
            IN  \A f1 \in MapFilenames, f2 \in MapFilenames :
                    LET r12 == add_new(once[f1].pm, once[f1].h, pid, s, e, f2)
                        twice == RangesIn(r12.pm, r12.h, pid)
                    IN  /\ twice = RangesIn(once[f2].pm, once[f2].h, pid)
                        /\ Count([j \in 1..Len(twice) |->
                                    <<twice[j].start, twice[j].end>>],
                                 <<s, e>>) = 1

\* An overlay where a re-insert has neighbours on both sides to leave alone.
C19_Witness ==
    \E pid \in Pids :
        /\ Len(Ranges(pid)) = 3
        /\ Ranges(pid)[1].filename # Ranges(pid)[2].filename

(* ======================================================================= *)
(* Properties of the aggregation                                           *)
(* ======================================================================= *)
\* the lists of the aggregation, as <<filename, function_name, stop_reason>>
ResultKeys ==
    UNION {UNION {{<<f, g, r>> : r \in DOMAIN file_results[f][g]} :
                     g \in DOMAIN file_results[f]} :
              f \in DOMAIN file_results}

ResultList(k) == file_results[k[1]][k[2]][k[3]]

\* the SampleResult objects some list holds
StoredRefs ==
    UNION {{ResultList(k)[i] : i \in 1..Len(ResultList(k))} : k \in ResultKeys}

Anchor(i) == last(samples[i].sample.callchain)
StopReason(i) == samples[i].sample.unwinding_result.stop_reason
Passes(i) ==
    ~should_omit(omit_callchains_fixed_by_joiner, samples[i].sample,
                 samples[i].joined)

\* C8 as stated: of two samples that pass the classifier and have the same
\* stop_reason, anchor function name and anchor offset_in_file, the one
\* processed second is not stored, whatever their other fields are.
C8_SecondDropped ==
    \A i \in 1..Len(samples), j \in 1..Len(samples) :
        ( /\ i < j
          /\ Passes(i) /\ Passes(j)
          /\ StopReason(i) = StopReason(j)
          /\ Anchor(i).function_name = Anchor(j).function_name
          /\ Anchor(i).vaddr_in_file = Anchor(j).vaddr_in_file )
        => j \notin StoredRefs

\* C8 amended: of two samples that pass the classifier and have the same
\* stop_reason, anchor filename, anchor function name and anchor
\* offset_in_file, the one processed second is not stored, whatever their
\* pid, tid, time and other fields are.
C8_SecondDroppedSameFile ==
    \A i \in 1..Len(samples), j \in 1..Len(samples) :
        ( /\ i < j
          /\ Passes(i) /\ Passes(j)
          /\ StopReason(i) = StopReason(j)
          /\ Anchor(i).filename = Anchor(j).filename
          /\ Anchor(i).function_name = Anchor(j).function_name
          /\ Anchor(i).vaddr_in_file = Anchor(j).vaddr_in_file )
        => j \notin StoredRefs

\* Two retained-by-the-classifier samples of the same file, function, stop
\* reason and offset but of different pid, tid and time: the first is stored,
\* the second is not.
C8_Witness ==
    \E i \in 1..Len(samples), j \in 1..Len(samples) :
        /\ i < j
        /\ Passes(i) /\ Passes(j)
        /\ StopReason(i) = StopReason(j)
        /\ Anchor(i) = Anchor(j)
        /\ samples[i].sample.pid # samples[j].sample.pid
        /\ samples[i].sample.tid # samples[j].sample.tid
        /\ samples[i].sample.unwinding_result.time
               # samples[j].sample.unwinding_result.time
        /\ i \in StoredRefs
        /\ j \notin StoredRefs

\* the anchor offsets of the samples processed so far that pass the
\* classifier and belong to list k
OffsetsSeen(k) ==
    {Anchor(i).vaddr_in_file :
        i \in {n \in 1..Len(samples) :
                  /\ Passes(n)
                  /\ Anchor(n).filename = k[1]
                  /\ Anchor(n).function_name = k[2]
                  /\ StopReason(n) = k[3]}}

\* C9: every (filename, function, stop_reason) list holds at most 10 samples,
\* no two of them with the same anchor offset_in_file; once non-omitted
\* samples with 11 pairwise distinct anchor offsets have been recorded for a
\* triple, its list holds exactly 10.
C9_Capacity ==
    \A k \in ResultKeys :
        LET l == ResultList(k)
        IN  /\ Len(l) <= 10
            /\ \A a \in 1..Len(l), b \in 1..Len(l) :
                   a # b => Anchor(l[a]).vaddr_in_file # Anchor(l[b]).vaddr_in_file
            /\ Cardinality(OffsetsSeen(k)) >= 11 => Len(l) = 10

\* Eleven distinct offsets and a duplicate have been recorded for one triple,
\* and its list is full.
C9_Witness ==
    \E k \in ResultKeys :
        /\ Cardinality(OffsetsSeen(k)) = 11
        /\ Len(samples) = 12
        /\ Len(ResultList(k)) = 10

HasMarker(filename) == str_in(JitCodeCache, filename) \/ str_in(Anon, filename)

\* C10: a sample whose anchor filename contains "//anon" or the JIT cache
\* path is never stored in the aggregation and makes no entry in it, whatever
\* the rest of its chain, its joined chain and the flag are.
C10_InMemoryCodeOmitted ==
    /\ \A i \in 1..Len(samples) :
           HasMarker(Anchor(i).filename) => i \notin StoredRefs
    /\ \A f \in DOMAIN file_results : ~HasMarker(f)

\* With the flag unset, a sample anchored in anonymous memory whose chains
\* are both incomplete (no other rule omits it) has been processed next to a
\* sample that was stored.
C10_Witness ==
    /\ ~omit_callchains_fixed_by_joiner
    /\ StoredRefs # {}
    /\ \E i \in 1..Len(samples) :
          /\ str_in(Anon, Anchor(i).filename)
          /\ ~is_callchain_complete(samples[i].sample.callchain)
          /\ ~is_callchain_complete(samples[i].joined.callchain)
          /\ i \notin StoredRefs

\* C11: the count of the unwinding times is the number of unwinding_result
\* records processed so far, whether the sample was omitted, kept, a
\* duplicate or over the capacity of its list; the mmap and fork records in
\* between leave it alone.
C11_CountAllSamples == unwinding_times.count = Len(samples)

\* A whole trace was processed, with an mmap and a fork record in it: one
\* sample was omitted, one was a duplicate, ten fill the list and one came
\* when the list was full.
C11_Witness ==
    /\ Len(samples) = MaxCountSamples
    /\ 2 \in DOMAIN process_maps
    /\ Len(Ranges(2)) = 1
    /\ \E i \in 1..Len(samples) : ~Passes(i)
    /\ \E k \in ResultKeys :
           LET stored == {Anchor(ResultList(k)[j]).vaddr_in_file :
                             j \in 1..Len(ResultList(k))}
               dropped == {i \in 1..Len(samples) :
                              Passes(i) /\ i \notin StoredRefs}
           IN  /\ Len(ResultList(k)) = MaxSampleResults
               /\ \E i \in dropped : Anchor(i).vaddr_in_file \in stored
               /\ \E i \in dropped : Anchor(i).vaddr_in_file \notin stored

\* an event is malformed: a required key is missing, or its ORIGINAL or
\* JOINED section has no frame, has a different number of ip/sp pairs than
\* of function/file/offset triples, or has not the expected tag
SectionMalformed(rec, tag) ==
    \/ Len(rec.ips) = 0 /\ Len(rec.function_names) = 0
    \/ Len(rec.ips) # Len(rec.function_names)
    \/ rec.chain_type # tag

Malformed(raw) ==
    \/ ~({"time", "used_time", "stop_reason"} \subseteq DOMAIN raw.unwinding_result)
    \/ SectionMalformed(raw.original, "ORIGINAL_OFFLINE")
    \/ SectionMalformed(raw.joined, "JOINED_OFFLINE")

\* C12: a malformed unwinding_result event ends the run in the error state
\* at that event and adds nothing to the unwinding times, the sample results
\* or the process maps; from the error state no record is applied and no
\* report is shown.
C12_MalformedFatal ==
    [][/\ \A raw \in ParseEvents :
              (Malformed(raw) /\ UnwindingLines(raw)) =>
                  /\ pc' = "fatal"
                  /\ UNCHANGED <<mapVars, reportVars>>
       /\ pc = "fatal" => UNCHANGED vars
       /\ pc' = "shown" =>
              /\ pc = "shown" \/ Len(samples) >= 1
              /\ UNCHANGED <<mapVars, reportVars>>
      ]_vars

\* The run ended in the error state after a sample was recorded and the
\* maps of two processes were built.
C12_Witness ==
    /\ pc = "fatal"
    /\ Len(samples) >= 1
    /\ unwinding_times.count = Len(samples)
    /\ 2 \in DOMAIN process_maps
    /\ Len(Ranges(2)) = 1

\* rule (2) of the classifier on a chain: some frame is an entry function of
\* a file whose name ends in "libc.so"
ReachesEntry(callchain) ==
    \E j \in 1..Len(callchain) :
        /\ callchain[j].function_name \in {"__libc_init", "__start_thread"}
        /\ Len(callchain[j].filename) >= 1
        /\ last(callchain[j].filename) = "libc.so"

\* C15: should_omit is true exactly when the anchor filename of the primary
\* chain contains a marker of code generated in memory, or the primary chain
\* reaches an entry function of libc.so, or the flag is set and the joined
\* chain reaches one; with the flag unset the joined chain does not matter;
\* and processing an omitted sample changes nothing but the unwinding times,
\* which are updated before should_omit is asked.
C15_OmitRules ==
    /\ \A i \in 1..Len(samples) :
           LET sample_result == samples[i].sample
               joined_record == samples[i].joined
           IN  /\ should_omit(omit_callchains_fixed_by_joiner, sample_result,
                              joined_record)
                    <=> \/ HasMarker(Anchor(i).filename)
                        \/ ReachesEntry(sample_result.callchain)
                        \/ /\ omit_callchains_fixed_by_joiner
                           /\ ReachesEntry(joined_record.callchain)
               /\ ~omit_callchains_fixed_by_joiner =>
                      \A j \in 1..Len(samples) :
                          should_omit(omit_callchains_fixed_by_joiner,
                                      sample_result, samples[j].joined)
                              = ~Passes(i)
    /\ \A i \in 1..Len(samples) :
           ~Passes(i) =>
               LET r == UnwindingResultErrorReport_add_sample_result(
                            omit_callchains_fixed_by_joiner, unwinding_times,
                            file_results, samples, i)
               IN  /\ r.file_results = file_results
                   /\ r.unwinding_times =
                          add_time(unwinding_times,
                                   int(samples[i].sample.unwinding_result.used_time))

\* With the flag unset, a sample whose joined chain alone is complete was
\* kept, next to a sample omitted for its own chain whose joined chain is
\* not complete.
C15_Witness ==
    /\ ~omit_callchains_fixed_by_joiner
    /\ \E i \in 1..Len(samples), j \in 1..Len(samples) :
           /\ i \in StoredRefs
           /\ ReachesEntry(samples[i].joined.callchain)
           /\ ~Passes(j)
           /\ ~HasMarker(Anchor(j).filename)
           /\ ~ReachesEntry(samples[j].joined.callchain)

\* the bounds of the range of pid that holds addr in the process maps as
\* they are now, 0 and 0 when no range holds it
BoundsNow(pid, addr) ==
    LET hit == {i \in 1..Len(Ranges(pid)) : Covers(Ranges(pid)[i], addr)}
    IN  IF hit = {} THEN <<0, 0>>
        ELSE LET i == CHOOSE i \in hit : TRUE
             IN  <<Ranges(pid)[i].start, Ranges(pid)[i].end>>

\* the nodes of a chain are the frames of a record, in order, each with the
\* bounds the process maps give for its ip now
ResolvedNow(callchain, rec) ==
    /\ Len(callchain) = Len(rec.frames)
    /\ \A j \in 1..Len(callchain) :
           /\ callchain[j].ip = rec.frames[j].ip
           /\ callchain[j].function_name = rec.frames[j].function_name
           /\ callchain[j].vaddr_in_file = rec.frames[j].vaddr_in_file
           /\ <<callchain[j].map_start_addr, callchain[j].map_end_addr>>
                  = BoundsNow(rec.pid, rec.frames[j].ip)

\* C16: the nodes of both chains of an unwinding_result record get the
\* bounds of the range that holds their ip in the process maps built from
\* the mmap and fork records before it, 0 and 0 when none does, one node per
\* frame in the order of the frames; no later record changes a sample that
\* was recorded.
C16_ResolvedAtEvent ==
    [][/\ \A ev \in TraceEvents :
              UnwindingRecord(ev) =>
                  /\ Len(samples') = Len(samples) + 1
                  /\ ResolvedNow(last(samples').sample.callchain, ev.original)
                  /\ ResolvedNow(last(samples').joined.callchain, ev.joined)
       /\ Len(samples') >= Len(samples)
       /\ SubSeq(samples', 1, Len(samples)) = samples
      ]_vars

\* A stored sample has the bounds [0,3) at an ip where the process maps of
\* its pid now give [2,3), and another was recorded after the maps changed.
C16_Witness ==
    \E i \in StoredRefs, k \in 1..Len(samples) :
        /\ i < k
        /\ \E j \in 1..Len(samples[i].sample.callchain) :
               LET node == samples[i].sample.callchain[j]
               IN  /\ <<node.map_start_addr, node.map_end_addr>> = <<0, 3>>
                   /\ BoundsNow(samples[i].sample.pid, node.ip) = <<2, 3>>
        /\ \E j \in 1..Len(samples[k].sample.callchain) :
               LET node == samples[k].sample.callchain[j]
               IN  <<node.map_start_addr, node.map_end_addr>> = <<2, 3>>

\* the samples of a triple that pass the classifier and bring an anchor
\* offset that no earlier such sample of the triple had
FirstOfOffset(k) ==
    LET of_k == {n \in 1..Len(samples) :
                    /\ Passes(n)
                    /\ Anchor(n).filename = k[1]
                    /\ Anchor(n).function_name = k[2]
                    /\ StopReason(n) = k[3]}
    IN  {i \in of_k :
            \A n \in of_k :
                n < i => Anchor(n).vaddr_in_file # Anchor(i).vaddr_in_file}

\* C17: every list holds, in trace order, the first 10 (or all, when there
\* are fewer) of the samples of its triple that pass the classifier and
\* bring a new anchor offset, so that a stored sample is never removed,
\* replaced or moved as the trace goes on; and the next record of the trace,
\* when the list of its triple holds 10, changes nothing in file_results.
C17_FirstCome ==
    /\ \A k \in ResultKeys :
           LET l == ResultList(k)
               F == FirstOfOffset(k)
           IN  /\ \A a \in 1..Len(l), b \in 1..Len(l) : a < b => l[a] < l[b]
               /\ {l[a] : a \in 1..Len(l)}
                      = {i \in F : Cardinality({n \in F : n < i}) < 10}
    /\ \A ev \in CountEvents :
           LET original_record ==
                   parse_callchain_record(process_maps, heap, ev.original)
               objs == Append(samples,
                              [sample |-> SampleResult(original_record.pid,
                                                       original_record.tid,
                                                       ev.unwinding_result,
                                                       original_record.callchain),
                               joined |-> parse_callchain_record(
                                              process_maps, heap, ev.joined)])
               anchor == last(original_record.callchain)
               k == <<anchor.filename, anchor.function_name,
                      ev.unwinding_result.stop_reason>>
           IN  (k \in ResultKeys /\ Len(ResultList(k)) = 10) =>
                   UnwindingResultErrorReport_add_sample_result(
                       omit_callchains_fixed_by_joiner, unwinding_times,
                       file_results, objs, Len(objs)).file_results
                       = file_results

\* A sample was omitted and one was a duplicate before the list got its
\* tenth sample, and a sample with a new offset came after that.
C17_Witness ==
    \E k \in ResultKeys :
        LET l == ResultList(k)
        IN  /\ Len(l) = 10
            /\ \E i \in 1..Len(samples) : i < l[10] /\ ~Passes(i)
            /\ \E i \in 1..Len(samples) :
                   i < l[10] /\ Passes(i) /\ i \notin FirstOfOffset(k)
            /\ \E i \in FirstOfOffset(k) : i > l[10]

\* C18: a sample stored under file f, function g and stop reason r has the
\* anchor filename f, the anchor function name g and the stop_reason r, and
\* passes the classifier; every file, function and stop reason entry holds
\* a stored sample, so an omitted sample has made none.
C18_BucketKeys ==
    /\ \A k \in ResultKeys :
           /\ Len(ResultList(k)) >= 1
           /\ \A a \in 1..Len(ResultList(k)) :
                  LET i == ResultList(k)[a]
                  IN  /\ Anchor(i).filename = k[1]
                      /\ Anchor(i).function_name = k[2]
                      /\ StopReason(i) = k[3]
                      /\ Passes(i)
    /\ \A f \in DOMAIN file_results :
           /\ DOMAIN file_results[f] # {}
           /\ \A g \in DOMAIN file_results[f] : DOMAIN file_results[f][g] # {}

\* Two samples are stored under keys that differ in file, function and stop
\* reason, and a third was omitted although its anchor file has no entry.
C18_Witness ==
    /\ \E k1 \in ResultKeys, k2 \in ResultKeys :
           /\ k1[1] # k2[1]
           /\ k1[2] # k2[2]
           /\ k1[3] # k2[3]
    /\ \E i \in 1..Len(samples) :
           ~Passes(i) /\ Anchor(i).filename \notin DOMAIN file_results

\* an mmap record lacks pid, start, length or filename, or its filename is
\* empty after trimming
MapEventMalformed(raw) ==
    \/ raw.pid_line = <<>>
    \/ raw.pgoff_line = <<>>
    \/ \A j \in 1..Len(raw.pgoff_line[1]) : raw.pgoff_line[1][j] = " "

\* C20 as stated: an mmap record whose filename is empty after trimming, or
\* that lacks pid, start, length or filename, ends the run in the error
\* state and changes no process maps, and no range of the process maps has
\* an empty filename.
C20_EmptyFilenameFatal ==
    [][/\ \A raw \in LineRecords :
              (MapEventMalformed(raw) /\ MmapLines(raw)) =>
                  /\ pc' = "fatal"
                  /\ UNCHANGED mapVars
       /\ \A pid \in Pids :
              \A i \in 1..Len(Ranges(pid)') :
                  Ranges(pid)'[i].filename # <<>>
      ]_vars
====
